---- MODULE Spec2Model ----
(***************************************************************************)
(* A model of src/Transformers/transformers.py: SelfAttention,             *)
(* TransformerBlock, Encoder, Decoder, Transformer and train_transformer.  *)
(*                                                                         *)
(* SelfAttention.forward is modelled on data: a tensor is a record of its  *)
(* shape and its entries, real numbers are fixed point (attention weights  *)
(* in units of 1/Scale), and softmax is computed in base 2 with underflow  *)
(* below 2^-Precision.  The layers above it (TransformerBlock, Encoder,    *)
(* Decoder, Transformer) are modelled on shapes and on the identity of the *)
(* tensors they pass around: a tensor there is a record of its shape and   *)
(* its origin (which stream produced it, after how many blocks).           *)
(***************************************************************************)
EXTENDS Integers, Sequences, FiniteSets, TLC

VARIABLES
    blk,      \* SpecAttn: the TransformerBlock (and its SelfAttention) under test
    acall,    \* SpecAttn: the last SelfAttention.forward call, inputs and results
    bcall,    \* SpecAttn: the last TransformerBlock.forward call
    model,    \* Spec: the Transformer object (configuration, construction state)
    params,   \* Spec: version of the model's parameters (bumped by optimizer.step)
    pc,       \* Spec: position inside train_transformer, or "idle"
    done,     \* Spec: the stages of the current train_transformer call completed
    fwd       \* Spec: the last Transformer.forward call, inputs, block calls, result

vars == <<blk, acall, bcall, model, params, pc, done, fwd>>

----------------------------------------------------------------------------
(* Bounds of the model                                                     *)

MaxLen == 2
MaxBatch == 1
MaxHeads == 2
MaxEmbed == 4
MaxSeq == 3
MaxLayers == 2
MaxSteps == 2
SrcVocab == 2
TrgVocab == 3

\* forward_expansion as the driver sets it
ForwardExpansion == 4

\* the parameter settings and the input patterns the calls are tried on
ParamSets == {1, 2}
Seeds == {1, 2}

----------------------------------------------------------------------------
(* Fixed-point arithmetic of the tensor engine                             *)

\* weights are held in units of 1/Scale; 1/Scale is the tolerance 1e-6
Scale == 1000000
\* 2^-d underflows to 0 for d > Precision
Precision == 10
\* float("-1e20") of masked_fill, in the model's integer units
Sentinel == -1000000

RECURSIVE Pow2(_)
Pow2(n) == IF n <= 0 THEN 1 ELSE 2 * Pow2(n - 1)

RECURSIVE Prod(_)
Prod(s) == IF s = <<>> THEN 1 ELSE Head(s) * Prod(Tail(s))

RECURSIVE SumTo(_, _)
\* sum of f[1] .. f[n]
SumTo(f, n) == IF n <= 0 THEN 0 ELSE f[n] + SumTo(f, n - 1)

RECURSIVE MaxTo(_, _)
\* max of f[1] .. f[n], n >= 1
MaxTo(f, n) == IF n <= 1 THEN f[1]
               ELSE LET m == MaxTo(f, n - 1) IN IF f[n] > m THEN f[n] ELSE m

\* two sizes of one subscript or axis broadcast when equal or when one is 1
Broadcastable(a, b) == a = b \/ a = 1 \/ b = 1

BroadcastDim(a, b) == IF a = 1 THEN b ELSE a

\* index into an axis of size n that may have been broadcast from size 1
Bx(n, i) == IF n = 1 THEN 1 ELSE i

----------------------------------------------------------------------------
(* Tensors on data                                                         *)

NoneMask == [shape |-> <<>>, data |-> <<>>]

\* t.reshape(N, L, H, D): allowed when the element counts agree; row-major,
\* heads then head_dim
ReshapeOK(t, N, L, H, D) == Prod(t.shape) = N * L * H * D

Reshape4(t, N, L, H, D) ==
    [shape |-> <<N, L, H, D>>,
     data  |-> [n \in 1..N |-> [l \in 1..L |-> [h \in 1..H |-> [d \in 1..D |->
                   t.data[n][l][(h - 1) * D + d]]]]]]

\* nn.Linear(D, D, bias=False) applied to the last axis of a 4-d tensor
Linear4(W, t) ==
    LET D == t.shape[4] IN
    [shape |-> t.shape,
     data  |-> [n \in 1..t.shape[1] |-> [l \in 1..t.shape[2] |->
                 [h \in 1..t.shape[3] |-> [d \in 1..D |->
                   SumTo([e \in 1..D |-> W[d][e] * t.data[n][l][h][e]], D)]]]]]

\* torch.einsum("nqhd,nkhd->nhqk", [query, keys])
EinsumEnergy(query, keys) ==
    LET N == query.shape[1]
        Q == query.shape[2]
        K == keys.shape[2]
        H == query.shape[3]
        D == query.shape[4]
    IN [shape |-> <<N, H, Q, K>>,
        data  |-> [n \in 1..N |-> [h \in 1..H |-> [q \in 1..Q |-> [k \in 1..K |->
                     SumTo([d \in 1..D |-> query.data[n][q][h][d] * keys.data[n][k][h][d]], D)]]]]]

\* a mask can be filled into energy when, aligned from the right, each of its
\* axes has energy's size or 1
MaskOK(energy, mask) ==
    /\ Len(mask.shape) <= 4
    /\ \A i \in 1..Len(mask.shape) :
          LET m == mask.shape[Len(mask.shape) - i + 1]
              e == energy.shape[4 - i + 1]
          IN m = e \/ m = 1

MaskAt(mask, n, h, q, k) ==
    mask.data[Bx(mask.shape[1], n)][Bx(mask.shape[2], h)][Bx(mask.shape[3], q)][Bx(mask.shape[4], k)]

MaskedFillZero(energy, mask) ==
    [shape |-> energy.shape,
     data  |-> [n \in 1..energy.shape[1] |-> [h \in 1..energy.shape[2] |->
                 [q \in 1..energy.shape[3] |-> [k \in 1..energy.shape[4] |->
                   IF MaskAt(mask, n, h, q, k) = 0 THEN 0
                   ELSE energy.data[n][h][q][k]]]]]]

\* energy.masked_fill(mask == 0, float("-1e20"))
MaskedFill(energy, mask) ==
    [shape |-> energy.shape,
     data  |-> [n \in 1..energy.shape[1] |-> [h \in 1..energy.shape[2] |->
                 [q \in 1..energy.shape[3] |-> [k \in 1..energy.shape[4] |->
                   IF MaskAt(mask, n, h, q, k) = 0 THEN Sentinel
                   ELSE energy.data[n][h][q][k]]]]]]

\* floor(diff / sqrt(embed_size)) for diff >= 0, capped at Precision + 1
ScaledGap(diff, embed_size) ==
    IF diff > Precision * embed_size THEN Precision + 1
    ELSE CHOOSE t \in 0..diff :
            /\ t * t * embed_size <= diff * diff
            /\ (t + 1) * (t + 1) * embed_size > diff * diff

\* softmax of one row e[1..K] of energy / sqrt(embed_size), in units of 1/Scale
SoftmaxRow(e, K, embed_size) ==
    IF K = 0 THEN <<>>
    ELSE LET m   == MaxTo(e, K)
             gap == [k \in 1..K |-> ScaledGap(m - e[k], embed_size)]
             num == [k \in 1..K |-> IF gap[k] > Precision THEN 0
                                    ELSE Pow2(Precision - gap[k])]
             den == SumTo(num, K)
         IN [k \in 1..K |-> (num[k] * Scale) \div den]

\* torch.softmax(energy / (embed_size ** (1 / 2)), dim=3)
Softmax(energy, embed_size) ==
    [shape |-> energy.shape,
     data  |-> [n \in 1..energy.shape[1] |-> [h \in 1..energy.shape[2] |->
                 [q \in 1..energy.shape[3] |->
                   SoftmaxRow(energy.data[n][h][q], energy.shape[4], embed_size)]]]]

EinsumOutOKStrict(attention, values) == attention.shape[4] = values.shape[2]

\* torch.einsum("nhql,nlhd->nqhd", [attention, values]): subscript l is the key
\* axis of attention and the length axis of values; its two sizes must broadcast
EinsumOutOK(attention, values) == Broadcastable(attention.shape[4], values.shape[2])

EinsumOut(attention, values) ==
    LET N  == attention.shape[1]
        H  == attention.shape[2]
        Q  == attention.shape[3]
        La == attention.shape[4]
        Lv == values.shape[2]
        L  == BroadcastDim(La, Lv)
        D  == values.shape[4]
    IN [shape |-> <<N, Q, H, D>>,
        data  |-> [n \in 1..N |-> [q \in 1..Q |-> [h \in 1..H |-> [d \in 1..D |->
                     SumTo([l \in 1..L |-> attention.data[n][h][q][Bx(La, l)]
                                           * values.data[n][Bx(Lv, l)][h][d]], L)]]]]]

\* .reshape(N, query_len, heads * head_dim) followed by self.fc_out
FcOut(Wo, bo, t, embed_size) ==
    LET N == t.shape[1]
        Q == t.shape[2]
        H == t.shape[3]
        D == t.shape[4]
    IN [shape |-> <<N, Q, embed_size>>,
        data  |-> [n \in 1..N |-> [q \in 1..Q |-> [i \in 1..embed_size |->
                     SumTo([j \in 1..(H * D) |->
                              Wo[i][j] * t.data[n][q][((j - 1) \div D) + 1][((j - 1) % D) + 1]],
                           H * D)
                     + bo[i] * Scale]]]]

----------------------------------------------------------------------------
(* SelfAttention                                                           *)

NoTensor == [shape |-> <<>>, data |-> <<>>]

IsNone(mask) == mask.shape = <<>>

SelfAttentionInitNoAssert(embed_size, heads) ==
    [ok |-> TRUE, embed_size |-> embed_size, heads |-> heads,
     head_dim |-> embed_size \div heads]

\* SelfAttention.__init__: head_dim = embed_size // heads, and the assertion
SelfAttentionInit(embed_size, heads) ==
    LET head_dim == embed_size \div heads IN
    [ok |-> head_dim * heads = embed_size, embed_size |-> embed_size,
     heads |-> heads, head_dim |-> head_dim]

\* the weights of self.values (salt 0), self.keys (1), self.queries (2) and
\* self.fc_out (3) under parameter setting pset; self.fc_out's bias
Weight(pset, salt, rows, cols) ==
    [i \in 1..rows |-> [j \in 1..cols |-> ((pset * i + j + salt + pset) % 3) - 1]]

Bias(pset, rows) == [i \in 1..rows |-> ((pset + i) % 3) - 1]

AttnError == [status |-> "error", out |-> NoTensor, attention |-> NoTensor,
              energy |-> NoTensor, q4 |-> NoTensor, k4 |-> NoTensor, v4 |-> NoTensor]

\* SelfAttention.forward
SelfAttentionForward(self, pset, values, keys, query, mask) ==
    LET N         == query.shape[1]
        value_len == values.shape[2]
        key_len   == keys.shape[2]
        query_len == query.shape[2]
        H         == self.heads
        D         == self.head_dim
    IN
    IF ~ (/\ ReshapeOK(values, N, value_len, H, D)
          /\ ReshapeOK(keys, N, key_len, H, D)
          /\ ReshapeOK(query, N, query_len, H, D))
    THEN AttnError
    ELSE
    LET v4      == Reshape4(values, N, value_len, H, D)
        k4      == Reshape4(keys, N, key_len, H, D)
        q4      == Reshape4(query, N, query_len, H, D)
        energy0 == EinsumEnergy(q4, k4)
    IN
    IF ~IsNone(mask) /\ ~MaskOK(energy0, mask) THEN AttnError
    ELSE
    LET energy    == IF IsNone(mask) THEN energy0 ELSE MaskedFill(energy0, mask)
        attention == Softmax(energy, self.embed_size)
    IN
    IF ~EinsumOutOK(attention, v4) THEN AttnError
    ELSE [status    |-> "ok",
          out       |-> FcOut(Weight(pset, 3, self.embed_size, H * D),
                              Bias(pset, self.embed_size),
                              EinsumOut(attention, v4), self.embed_size),
          attention |-> attention,
          energy    |-> energy0,
          q4 |-> q4, k4 |-> k4, v4 |-> v4]

----------------------------------------------------------------------------
(* Tensors on shapes: [shape, origin]                                      *)

NoT == [shape |-> <<>>, origin |-> <<"none", 0>>]

\* a + b of two tensors of the same rank: the broadcast shape, <<>> if none
AddOK(a, b) ==
    /\ Len(a) = Len(b)
    /\ \A i \in 1..Len(a) : Broadcastable(a[i], b[i])

AddShape(a, b) == [i \in 1..Len(a) |-> BroadcastDim(a[i], b[i])]

\* nn.Linear(in_features, out_features) and nn.LayerNorm(in_features) accept a
\* tensor whose last axis has in_features entries
LastDimIs(shape, in_features) == Len(shape) >= 1 /\ shape[Len(shape)] = in_features

WithLastDim(shape, out_features) == [shape EXCEPT ![Len(shape)] = out_features]

ShapeError == [status |-> "shape_error", out_shape |-> <<>>, attention_shape |-> <<>>]

\* SelfAttention.forward on shapes: the same steps as SelfAttentionForward
SelfAttentionShape(self, values, keys, query, mask) ==
    LET N         == query.shape[1]
        value_len == values.shape[2]
        key_len   == keys.shape[2]
        query_len == query.shape[2]
        H         == self.heads
        D         == self.head_dim
        energy    == [shape |-> <<N, H, query_len, key_len>>]
        v4        == [shape |-> <<N, value_len, H, D>>]
    IN
    IF ~ (/\ ReshapeOK(values, N, value_len, H, D)
          /\ ReshapeOK(keys, N, key_len, H, D)
          /\ ReshapeOK(query, N, query_len, H, D))
    THEN ShapeError
    ELSE IF ~IsNone(mask) /\ ~MaskOK(energy, mask) THEN ShapeError
    ELSE IF ~EinsumOutOK(energy, v4) THEN ShapeError
    ELSE IF ~LastDimIs(<<N, query_len, H * D>>, H * D) THEN ShapeError
    ELSE [status |-> "ok",
          out_shape |-> WithLastDim(<<N, query_len, H * D>>, self.embed_size),
          attention_shape |-> energy.shape]

----------------------------------------------------------------------------
(* TransformerBlock                                                        *)

ResidualOperandValue(value, key, query) == value

\* the tensor the first residual connection adds to the attention output
ResidualOperand(value, key, query) == query

BlockError == [status |-> "shape_error", shape |-> <<>>, residual |-> NoT.origin]

\* TransformerBlock.forward; self.attention is the block's SelfAttention and
\* forward_expansion the width factor of feed_forward
TransformerBlockForward(self, forward_expansion, value, key, query, mask) ==
    LET E   == self.attention.embed_size
        att == SelfAttentionShape(self.attention, value, key, query, mask)
        res == ResidualOperand(value, key, query)
    IN
    IF att.status # "ok" THEN BlockError
    ELSE IF ~AddOK(att.out_shape, res.shape) THEN BlockError
    ELSE
    LET sum1 == AddShape(att.out_shape, res.shape) IN
    IF ~LastDimIs(sum1, E) THEN BlockError                 \* norm1
    ELSE
    LET x       == sum1                                    \* dropout keeps the shape
        hidden  == WithLastDim(x, forward_expansion * E)   \* Linear, ReLU
        forward == WithLastDim(hidden, E)                  \* Linear
    IN
    IF ~AddOK(forward, x) THEN BlockError
    ELSE IF ~LastDimIs(AddShape(forward, x), E) THEN BlockError   \* norm2
    ELSE [status |-> "ok", shape |-> AddShape(forward, x), residual |-> res.origin]

----------------------------------------------------------------------------
(* Encoder, Decoder, Transformer                                           *)

\* a tensor of token ids or positions: [shape |-> <<N, L>>, data]
NoIds == [shape |-> <<>>, data |-> <<>>]

\* torch.arange(0, seq_length).expand(N, seq_length)
Arange(N, seq_length) ==
    [shape |-> <<N, seq_length>>,
     data  |-> [n \in 1..N |-> [l \in 1..seq_length |-> l - 1]]]

EmbeddingOKClamped(num_embeddings, ids) == TRUE

\* nn.Embedding(num_embeddings, embed_size)(ids) raises unless every id is in
\* 0 .. num_embeddings - 1
EmbeddingOK(num_embeddings, ids) ==
    \A n \in 1..ids.shape[1] : \A l \in 1..ids.shape[2] :
        /\ ids.data[n][l] >= 0
        /\ ids.data[n][l] < num_embeddings

\* one call layer(value, key, query, mask) of a stack: the block's result and
\* the record of the call
LayerCall(self, value, key, query, mask) ==
    LET r == TransformerBlockForward(self, ForwardExpansion, value, key, query, mask) IN
    [status |-> r.status, shape |-> r.shape,
     call |-> [value |-> value.origin, key |-> key.origin, query |-> query.origin,
               mask |-> mask.origin, klen |-> key.shape[2], qlen |-> query.shape[2],
               status |-> r.status]]

\* Transformer.__init__: Encoder.__init__ and Decoder.__init__ each build
\* num_layers TransformerBlocks, each of which builds a SelfAttention
TransformerInit(src_vocab_size, trg_vocab_size, embed_size, num_layers, heads, max_length) ==
    LET a == SelfAttentionInit(embed_size, heads) IN
    [state |-> IF num_layers >= 1 /\ ~a.ok THEN "failed" ELSE "ok",
     src_vocab_size |-> src_vocab_size, trg_vocab_size |-> trg_vocab_size,
     embed_size |-> embed_size, num_layers |-> num_layers,
     max_length |-> max_length, attention |-> a]

RECURSIVE EncoderLayers(_, _, _, _, _)
\* for layer in self.layers: out = layer(out, out, out, mask)
EncoderLayers(self, out, mask, i, calls) ==
    IF i > self.num_layers THEN [status |-> "ok", out |-> out, calls |-> calls]
    ELSE LET r == LayerCall(self, out, out, out, mask) IN
         IF r.status # "ok"
         THEN [status |-> r.status, out |-> NoT, calls |-> Append(calls, r.call)]
         ELSE EncoderLayers(self, [shape |-> r.shape, origin |-> <<"enc", i>>],
                            mask, i + 1, Append(calls, r.call))

\* Encoder.forward
EncoderForward(self, x, mask) ==
    LET N          == x.shape[1]
        seq_length == x.shape[2]
        positions  == Arange(N, seq_length)
    IN IF ~EmbeddingOK(self.src_vocab_size, x) \/ ~EmbeddingOK(self.max_length, positions)
       THEN [status |-> "range_error", out |-> NoT, calls |-> <<>>]
       ELSE EncoderLayers(self, [shape |-> <<N, seq_length, self.embed_size>>,
                                 origin |-> <<"enc", 0>>], mask, 1, <<>>)

DecoderLayerSrcMask(self, x, enc_out, src_mask, trg_mask) ==
    [value |-> x, key |-> enc_out, query |-> x, mask |-> src_mask]

\* the arguments of layer(x, enc_out, x, trg_mask), bound to
\* TransformerBlock.forward(value, key, query, mask)
DecoderLayerArgs(self, x, enc_out, src_mask, trg_mask) ==
    [value |-> x, key |-> enc_out, query |-> x, mask |-> trg_mask]

\* x = layer(x, enc_out, x, trg_mask)
DecoderLayerCall(self, x, enc_out, src_mask, trg_mask) ==
    LET a == DecoderLayerArgs(self, x, enc_out, src_mask, trg_mask) IN
    LayerCall(self, a.value, a.key, a.query, a.mask)

RECURSIVE DecoderLayers(_, _, _, _, _, _, _)
\* for layer in self.layers: x = layer(x, enc_out, x, trg_mask)
DecoderLayers(self, x, enc_out, src_mask, trg_mask, i, calls) ==
    IF i > self.num_layers THEN [status |-> "ok", out |-> x, calls |-> calls]
    ELSE LET r == DecoderLayerCall(self, x, enc_out, src_mask, trg_mask) IN
         IF r.status # "ok"
         THEN [status |-> r.status, out |-> NoT, calls |-> Append(calls, r.call)]
         ELSE DecoderLayers(self, [shape |-> r.shape, origin |-> <<"dec", i>>],
                            enc_out, src_mask, trg_mask, i + 1, Append(calls, r.call))

\* return self.fc_out(x), x the result r of the layers
DecoderFcOut(self, r) ==
    IF r.status # "ok"
    THEN [status |-> r.status, logits |-> <<>>, calls |-> r.calls]
    ELSE IF ~LastDimIs(r.out.shape, self.embed_size)
    THEN [status |-> "shape_error", logits |-> <<>>, calls |-> r.calls]
    ELSE [status |-> "ok",
          logits |-> WithLastDim(r.out.shape, self.trg_vocab_size),
          calls  |-> r.calls]

\* Decoder.forward: embeddings, the layers, then self.fc_out
DecoderForward(self, x, enc_out, src_mask, trg_mask) ==
    LET N          == x.shape[1]
        seq_length == x.shape[2]
        positions  == Arange(N, seq_length)
    IN IF ~EmbeddingOK(self.trg_vocab_size, x) \/ ~EmbeddingOK(self.max_length, positions)
       THEN [status |-> "range_error", logits |-> <<>>, calls |-> <<>>]
       ELSE DecoderFcOut(self,
                DecoderLayers(self, [shape |-> <<N, seq_length, self.embed_size>>,
                                     origin |-> <<"dec", 0>>],
                              enc_out, src_mask, trg_mask, 1, <<>>))

NoRes == [status |-> "none", logits |-> <<>>, enc_calls |-> <<>>, dec_calls |-> <<>>,
          enc_out |-> NoT, dec_src_mask |-> NoT]

\* out = self.decoder(trg, enc_out, enc_out, trg_mask), enc the encoder's
\* result.  dec_src_mask is what Decoder.forward's parameter src_mask is bound to
TransformerDecode(self, trg, trg_mask, enc, dec) ==
    [status |-> dec.status, logits |-> dec.logits, enc_calls |-> enc.calls,
     dec_calls |-> dec.calls, enc_out |-> enc.out, dec_src_mask |-> enc.out]

TransformerAfterEncoder(self, trg, trg_mask, enc) ==
    IF enc.status # "ok"
    THEN [NoRes EXCEPT !.status = enc.status, !.enc_calls = enc.calls]
    ELSE TransformerDecode(self, trg, trg_mask, enc,
                           DecoderForward(self, trg, enc.out, enc.out, trg_mask))

\* Transformer.forward: enc_out = self.encoder(src, src_mask), then the decoder
TransformerForward(self, src, trg, src_mask, trg_mask) ==
    TransformerAfterEncoder(self, trg, trg_mask, EncoderForward(self, src, src_mask))

----------------------------------------------------------------------------
(* Component-level calls: a TransformerBlock is built, then its attention  *)
(* is called directly (as the driver does, lines 169-170)                  *)

\* an input tensor of shape (N, L, E) with entries in -1..1
Gen(seed, N, L, E) ==
    [shape |-> <<N, L, E>>,
     data  |-> [n \in 1..N |-> [l \in 1..L |-> [j \in 1..E |->
                   ((seed * 7 + n * 5 + l * l * 3 + j * (l + seed) + j * j) % 3) - 1]]]]

\* masks broadcastable to (N, 1, Q, K): a key-padding pattern pad (one bit per
\* key, rotated per batch element), alone or combined with a causal pattern
PadBit(pad, K, n, k) == pad[((k + n - 2) % K) + 1]

PadMask(pad, N, K) ==
    [shape |-> <<N, 1, 1, K>>,
     data  |-> [n \in 1..N |-> [h \in 1..1 |-> [q \in 1..1 |-> [k \in 1..K |->
                   PadBit(pad, K, n, k)]]]]]

CausalPadMask(pad, N, Q, K) ==
    [shape |-> <<N, 1, Q, K>>,
     data  |-> [n \in 1..N |-> [h \in 1..1 |-> [q \in 1..Q |-> [k \in 1..K |->
                   IF k <= q THEN PadBit(pad, K, n, k) ELSE 0]]]]]

MaskChoices(N, Q, K) ==
    {NoneMask}
    \cup {PadMask(pad, N, K) : pad \in [1..K -> {0, 1}]}
    \cup {CausalPadMask(pad, N, Q, K) : pad \in [1..K -> {0, 1}]}

NoACall == [active |-> FALSE, values |-> NoTensor, keys |-> NoTensor,
            query |-> NoTensor, mask |-> NoneMask, res |-> AttnError]

\* masks on shapes: none, key padding, per-pair, and a square (Q, Q) one
ShapeMaskChoices(N, Q, K) ==
    {NoT,
     [shape |-> <<N, 1, 1, K>>, origin |-> <<"mask", 1>>],
     [shape |-> <<N, 1, Q, K>>, origin |-> <<"mask", 2>>],
     [shape |-> <<1, 1, Q, Q>>, origin |-> <<"mask", 3>>]}

NoBCall == [active |-> FALSE, value |-> NoT, key |-> NoT, query |-> NoT,
            mask |-> NoT, res |-> BlockError]

NoBlk == [state |-> "none", pset |-> 0, attention |-> SelfAttentionInit(1, 1)]

\* TransformerBlock.__init__: builds its SelfAttention first
TransformerBlockInit(embed_size, heads, pset) ==
    LET a == SelfAttentionInit(embed_size, heads) IN
    [state |-> IF a.ok THEN "ok" ELSE "failed", pset |-> pset, attention |-> a]

BlockConstruct ==
    /\ blk.state = "none"
    /\ \E embed_size \in 1..MaxEmbed, heads \in 1..MaxHeads, pset \in ParamSets :
          blk' = TransformerBlockInit(embed_size, heads, pset)
    /\ UNCHANGED <<acall, bcall, model, params, pc, done, fwd>>

SelfAttentionCall ==
    /\ blk.state = "ok"
    /\ ~acall.active /\ ~bcall.active
    /\ \E N \in 1..MaxBatch, vl \in 0..MaxLen, kl \in 0..MaxLen, ql \in 0..MaxLen,
          seed \in Seeds :
          \E mask \in MaskChoices(N, ql, kl) :
             LET E      == blk.attention.embed_size
                 values == Gen(seed, N, vl, E)
                 keys   == Gen(seed + 1, N, kl, E)
                 query  == Gen(seed + 2, N, ql, E)
             IN acall' = [active |-> TRUE, values |-> values, keys |-> keys,
                          query |-> query, mask |-> mask,
                          res |-> SelfAttentionForward(blk.attention, blk.pset,
                                                       values, keys, query, mask)]
    /\ UNCHANGED <<blk, bcall, model, params, pc, done, fwd>>

TransformerBlockCall ==
    /\ blk.state = "ok"
    /\ ~acall.active /\ ~bcall.active
    /\ \E N \in 1..MaxBatch, vl \in 0..MaxLen, kl \in 0..MaxLen, ql \in 0..MaxLen :
          \E mask \in ShapeMaskChoices(N, ql, kl) :
             LET E     == blk.attention.embed_size
                 value == [shape |-> <<N, vl, E>>, origin |-> <<"value", 0>>]
                 key   == [shape |-> <<N, kl, E>>, origin |-> <<"key", 0>>]
                 query == [shape |-> <<N, ql, E>>, origin |-> <<"query", 0>>]
             IN bcall' = [active |-> TRUE, value |-> value, key |-> key,
                          query |-> query, mask |-> mask,
                          res |-> TransformerBlockForward(blk, ForwardExpansion,
                                                          value, key, query, mask)]
    /\ UNCHANGED <<blk, acall, model, params, pc, done, fwd>>

CallReturn ==
    /\ acall.active \/ bcall.active
    /\ acall' = NoACall
    /\ bcall' = NoBCall
    /\ UNCHANGED <<blk, model, params, pc, done, fwd>>

----------------------------------------------------------------------------
(* train_transformer                                                       *)

TrainNextStepEarly(stage) ==
    CASE stage = "train"     -> "zero_grad"
      [] stage = "zero_grad" -> "forward"
      [] stage = "forward"   -> "step"
      [] stage = "step"      -> "reshape"
      [] stage = "reshape"   -> "loss"
      [] stage = "loss"      -> "backward"
      [] stage = "backward"  -> "return"
      [] OTHER               -> "idle"

\* the statement of train_transformer that follows statement `stage`
TrainNext(stage) ==
    CASE stage = "train"     -> "zero_grad"
      [] stage = "zero_grad" -> "forward"
      [] stage = "forward"   -> "reshape"
      [] stage = "reshape"   -> "loss"
      [] stage = "loss"      -> "backward"
      [] stage = "backward"  -> "step"
      [] stage = "step"      -> "return"
      [] OTHER               -> "idle"

\* the parameters after a forward pass that started with parameters p: no
\* forward method assigns a parameter or a buffer
ParamsAfterForward(p) == p

\* optimizer.step()
ParamsAfterStep(p) == p + 1

NoModel == [state |-> "none", src_vocab_size |-> 0, trg_vocab_size |-> 0,
            embed_size |-> 0, num_layers |-> 0, max_length |-> 0,
            attention |-> SelfAttentionInit(1, 1)]

NoFwd == [active |-> FALSE, by |-> "none", src |-> NoIds, trg |-> NoIds,
          src_mask |-> NoT, trg_mask |-> NoT, res |-> NoRes]

\* token ids of shape (N, L): all inside 0 .. vocab - 1, except that position
\* bad_pos (counted row by row, 0 for none) holds vocab or -1
IdsGen(N, L, vocab, bad_pos) ==
    [shape |-> <<N, L>>,
     data  |-> [n \in 1..N |-> [l \in 1..L |->
                   IF (n - 1) * L + l = bad_pos
                   THEN (IF bad_pos % 2 = 1 THEN vocab ELSE -1)
                   ELSE (n + l) % vocab]]]

SrcMaskChoices(N, S) ==
    {NoT, [shape |-> <<N, 1, 1, S>>, origin |-> <<"src_mask", 1>>]}

TrgMaskChoices(N, T) ==
    {NoT,
     [shape |-> <<N, 1, T, 1>>, origin |-> <<"trg_mask", 1>>],
     [shape |-> <<N, 1, T, T>>, origin |-> <<"trg_mask", 2>>]}

Construct ==
    /\ model.state = "none"
    /\ \E embed_size \in 1..MaxEmbed, heads \in 1..MaxHeads,
          num_layers \in 0..MaxLayers, max_length \in {MaxSeq - 1, MaxSeq} :
          model' = TransformerInit(SrcVocab, TrgVocab, embed_size, num_layers,
                                   heads, max_length)
    /\ UNCHANGED <<blk, acall, bcall, params, pc, done, fwd>>

\* a direct call model(src, trg, src_mask, trg_mask)
TransformerCall ==
    /\ model.state = "ok" /\ pc = "idle" /\ ~fwd.active
    /\ \E N \in 1..MaxBatch, S \in 1..MaxSeq, T \in 1..MaxSeq :
       \E sbad \in 0..(N * S), tbad \in 0..(N * T) :
       \E src_mask \in SrcMaskChoices(N, S), trg_mask \in TrgMaskChoices(N, T) :
          LET src == IdsGen(N, S, SrcVocab, sbad)
              trg == IdsGen(N, T, TrgVocab, tbad)
          IN fwd' = [active |-> TRUE, by |-> "call", src |-> src, trg |-> trg,
                     src_mask |-> src_mask, trg_mask |-> trg_mask,
                     res |-> TransformerForward(model, src, trg, src_mask, trg_mask)]
    /\ params' = ParamsAfterForward(params)
    /\ UNCHANGED <<blk, acall, bcall, model, pc, done>>

\* the caller drops the result (or the exception) of the last forward call
ForwardReturn ==
    /\ pc = "idle" /\ fwd.active
    /\ fwd' = NoFwd
    /\ UNCHANGED <<blk, acall, bcall, model, params, pc, done>>

\* train_transformer(model, optimizer, criterion, src, trg): model.train()
TrainEnter ==
    /\ model.state = "ok" /\ pc = "idle" /\ ~fwd.active
    /\ params < MaxSteps
    /\ \E N \in 1..MaxBatch, S \in 1..MaxSeq, T \in 1..MaxSeq :
       \E sbad \in 0..(N * S), tbad \in 0..(N * T) :
          fwd' = [NoFwd EXCEPT !.by = "train",
                               !.src = IdsGen(N, S, SrcVocab, sbad),
                               !.trg = IdsGen(N, T, TrgVocab, tbad)]
    /\ pc' = TrainNext("train")
    /\ done' = {"train"}
    /\ UNCHANGED <<blk, acall, bcall, model, params>>

\* optimizer.zero_grad()
ZeroGrad ==
    /\ pc = "zero_grad"
    /\ pc' = TrainNext("zero_grad")
    /\ done' = done \cup {"zero_grad"}
    /\ UNCHANGED <<blk, acall, bcall, model, params, fwd>>

\* output = model(src, trg); an exception leaves train_transformer
TrainForward ==
    /\ pc = "forward"
    /\ fwd' = [fwd EXCEPT !.active = TRUE,
                          !.res = TransformerForward(model, fwd.src, fwd.trg, NoT, NoT)]
    /\ IF fwd'.res.status = "ok"
       THEN pc' = TrainNext("forward") /\ done' = done \cup {"forward"}
       ELSE pc' = "idle" /\ done' = {}
    /\ params' = ParamsAfterForward(params)
    /\ UNCHANGED <<blk, acall, bcall, model>>

\* output.reshape(-1, output.shape[2]); trg.reshape(-1)
ReshapeOutput ==
    /\ pc = "reshape"
    /\ pc' = TrainNext("reshape")
    /\ done' = done \cup {"reshape"}
    /\ UNCHANGED <<blk, acall, bcall, model, params, fwd>>

\* loss = criterion(output, trg)
Loss ==
    /\ pc = "loss"
    /\ pc' = TrainNext("loss")
    /\ done' = done \cup {"loss"}
    /\ UNCHANGED <<blk, acall, bcall, model, params, fwd>>

\* loss.backward()
Backward ==
    /\ pc = "backward"
    /\ pc' = TrainNext("backward")
    /\ done' = done \cup {"backward"}
    /\ UNCHANGED <<blk, acall, bcall, model, params, fwd>>

\* optimizer.step()
OptimizerStep ==
    /\ pc = "step"
    /\ params' = ParamsAfterStep(params)
    /\ pc' = TrainNext("step")
    /\ done' = done \cup {"step"}
    /\ UNCHANGED <<blk, acall, bcall, model, fwd>>

\* return loss.item()
TrainReturn ==
    /\ pc = "return"
    /\ pc' = TrainNext("return")
    /\ done' = {}
    /\ fwd' = NoFwd
    /\ UNCHANGED <<blk, acall, bcall, model, params>>

----------------------------------------------------------------------------
(* Specifications                                                          *)

Init ==
    /\ blk = NoBlk
    /\ acall = NoACall
    /\ bcall = NoBCall
    /\ model = NoModel
    /\ params = 0
    /\ pc = "idle"
    /\ done = {}
    /\ fwd = NoFwd

\* the model is built, called and trained
Next ==
    \/ Construct
    \/ TransformerCall
    \/ ForwardReturn
    \/ TrainEnter
    \/ ZeroGrad
    \/ TrainForward
    \/ ReshapeOutput
    \/ Loss
    \/ Backward
    \/ OptimizerStep
    \/ TrainReturn

Spec == Init /\ [][Next]_vars

\* one block is built, and it or its attention is called
NextAttn == BlockConstruct \/ SelfAttentionCall \/ TransformerBlockCall \/ CallReturn

SpecAttn == Init /\ [][NextAttn]_vars

----------------------------------------------------------------------------
(* Properties                                                              *)

\* every id of ids lies in 0 .. vocab - 1
IdsInRange(ids, vocab) ==
    \A n \in 1..ids.shape[1] : \A l \in 1..ids.shape[2] :
        ids.data[n][l] \in 0..(vocab - 1)

\* mask is None or has, axis by axis, the size of (N, 1, Q, K) or 1
MaskFits(mask, N, Q, K) ==
    \/ mask.shape = <<>>
    \/ /\ Len(mask.shape) = 4
       /\ mask.shape[1] \in {1, N}
       /\ mask.shape[2] = 1
       /\ mask.shape[3] \in {1, Q}
       /\ mask.shape[4] \in {1, K}

\* the last forward call was a valid one: ids in range, lengths within
\* max_length, masks that fit the attention they are meant for
ValidForwardCall ==
    /\ fwd.active
    /\ IdsInRange(fwd.src, model.src_vocab_size)
    /\ IdsInRange(fwd.trg, model.trg_vocab_size)
    /\ fwd.src.shape[2] <= model.max_length
    /\ fwd.trg.shape[2] <= model.max_length
    /\ MaskFits(fwd.src_mask, fwd.src.shape[1], fwd.src.shape[2], fwd.src.shape[2])
    /\ MaskFits(fwd.trg_mask, fwd.trg.shape[1], fwd.trg.shape[2], fwd.src.shape[2])

\* C1: every valid call Transformer.forward(src, trg, src_mask, trg_mask), src
\* of shape (N, S) and trg of shape (N, T) with S and T independent, succeeds
\* and returns logits of shape (N, T, trg_vocab_size).
C1_ForwardReturnsLogits ==
    ValidForwardCall =>
        /\ fwd.res.status = "ok"
        /\ fwd.res.logits = <<fwd.trg.shape[1], fwd.trg.shape[2], model.trg_vocab_size>>

\* C2: every decoder Block is invoked with value = enc_out, key = enc_out,
\* query = the current decoder state and mask = trg_mask, and a forward pass
\* that succeeds has invoked all num_layers of them.
C2_DecoderCrossAttention ==
    fwd.active =>
        /\ \A i \in 1..Len(fwd.res.dec_calls) :
              /\ fwd.res.dec_calls[i].value = fwd.res.enc_out.origin
              /\ fwd.res.dec_calls[i].key = fwd.res.enc_out.origin
              /\ fwd.res.dec_calls[i].query = <<"dec", i - 1>>
              /\ fwd.res.dec_calls[i].mask = fwd.trg_mask.origin
        /\ fwd.res.status = "ok" => Len(fwd.res.dec_calls) = model.num_layers

\* energy, weights and output of a call computed from the projections
\* self.queries(query), self.keys(keys), self.values(values)
ProjectedAttention(self, pset, res, mask) ==
    LET D  == self.head_dim
        pq == Linear4(Weight(pset, 2, D, D), res.q4)
        pk == Linear4(Weight(pset, 1, D, D), res.k4)
        pv == Linear4(Weight(pset, 0, D, D), res.v4)
        e0 == EinsumEnergy(pq, pk)
        e  == IF IsNone(mask) THEN e0 ELSE MaskedFill(e0, mask)
        w  == Softmax(e, self.embed_size)
    IN [energy |-> e0, attention |-> w,
        out |-> FcOut(Weight(pset, 3, self.embed_size, self.heads * D),
                      Bias(pset, self.embed_size), EinsumOut(w, pv), self.embed_size)]

\* C3: in every Attention forward call the three bias-free linear maps are
\* applied to values, keys and query after the head reshape, and energy,
\* weights and output are computed from the projected tensors.
C3_ProjectionsApplied ==
    (acall.active /\ acall.res.status = "ok") =>
        /\ acall.res.energy = ProjectedAttention(blk.attention, blk.pset, acall.res, acall.mask).energy
        /\ acall.res.attention = ProjectedAttention(blk.attention, blk.pset, acall.res, acall.mask).attention
        /\ acall.res.out = ProjectedAttention(blk.attention, blk.pset, acall.res, acall.mask).out

\* C4 as claimed: for all valid inputs (any Vlen, Klen, Qlen) the call returns
\* output of shape (N, Qlen, embed_size) and weights of shape
\* (N, heads, Qlen, Klen).
C4_ShapesForAllLengths ==
    acall.active =>
        /\ acall.res.status = "ok"
        /\ acall.res.out.shape = <<acall.query.shape[1], acall.query.shape[2],
                                   blk.attention.embed_size>>
        /\ acall.res.attention.shape = <<acall.query.shape[1], blk.attention.heads,
                                         acall.query.shape[2], acall.keys.shape[2]>>

\* C4, amended: the call succeeds exactly when Vlen = Klen or one of the two is
\* 1, and then returns output of shape (N, Qlen, embed_size) and weights of
\* shape (N, heads, Qlen, Klen); otherwise it raises.
C4_ShapesWhenLengthsAgree ==
    acall.active =>
        LET vl == acall.values.shape[2]
            kl == acall.keys.shape[2]
        IN /\ acall.res.status = "ok" <=> (vl = kl \/ vl = 1 \/ kl = 1)
           /\ acall.res.status = "ok" =>
                /\ acall.res.out.shape = <<acall.query.shape[1], acall.query.shape[2],
                                           blk.attention.embed_size>>
                /\ acall.res.attention.shape = <<acall.query.shape[1], blk.attention.heads,
                                                 acall.query.shape[2], acall.keys.shape[2]>>

\* a call that succeeded with values and keys of different lengths
C4_Witness ==
    /\ acall.active /\ acall.res.status = "ok"
    /\ acall.values.shape[2] # acall.keys.shape[2]
    /\ acall.query.shape[2] = MaxLen

\* a weight within the tolerance 1e-6 of zero
ApproxZero(w) == w >= 0 /\ w <= 1

\* the mask of the last attention call forbids key k for every batch element
\* and every query position
KeyForbidden(k) ==
    \A n \in 1..acall.query.shape[1] : \A q \in 1..acall.query.shape[2] :
        MaskAt(acall.mask, n, 1, q, k) = 0

\* the mask row of query q of batch element n allows some key
RowAllowsSomeKey(n, q) ==
    \E k \in 1..acall.keys.shape[2] : MaskAt(acall.mask, n, 1, q, k) # 0

\* C5 as claimed: with a mask that is 0 at key position k for all queries, the
\* weights at k are approximately 0 for every batch element, head and query,
\* whatever the other mask entries and the number of keys.
C5_ForbiddenKeyGetsZero ==
    (acall.active /\ acall.res.status = "ok" /\ ~IsNone(acall.mask)) =>
        \A k \in 1..acall.keys.shape[2] :
            KeyForbidden(k) =>
                \A n \in 1..acall.query.shape[1] : \A h \in 1..blk.attention.heads :
                \A q \in 1..acall.query.shape[2] :
                    ApproxZero(acall.res.attention.data[n][h][q][k])

\* C5, amended: the weights at a forbidden key are approximately 0 in every row
\* whose mask allows at least one key; a row whose every key is forbidden gets
\* the uniform weights 1/Klen.
C5_ForbiddenKeyGetsZeroUnlessRowEmpty ==
    (acall.active /\ acall.res.status = "ok" /\ ~IsNone(acall.mask)) =>
        \A k \in 1..acall.keys.shape[2] :
            KeyForbidden(k) =>
                \A n \in 1..acall.query.shape[1] : \A h \in 1..blk.attention.heads :
                \A q \in 1..acall.query.shape[2] :
                    IF RowAllowsSomeKey(n, q)
                    THEN ApproxZero(acall.res.attention.data[n][h][q][k])
                    ELSE acall.res.attention.data[n][h][q][k]
                            = Scale \div acall.keys.shape[2]

\* a call whose mask forbids one key everywhere and allows another
C5_Witness ==
    /\ acall.active /\ acall.res.status = "ok" /\ ~IsNone(acall.mask)
    /\ acall.query.shape[2] >= 1
    /\ \E k \in 1..acall.keys.shape[2] :
          /\ KeyForbidden(k)
          /\ \A n \in 1..acall.query.shape[1] : \A q \in 1..acall.query.shape[2] :
                RowAllowsSomeKey(n, q)

\* C6: construction with embed_size not divisible by heads fails, so that no
\* forward pass runs on such a configuration; a construction that succeeds
\* has head_dim * heads = embed_size.
C6_ConstructionRequiresDivisibility ==
    /\ (model.state = "ok" /\ model.num_layers >= 1) =>
          /\ model.attention.head_dim * model.attention.heads = model.embed_size
          /\ model.embed_size % model.attention.heads = 0
    /\ (model.state # "none" /\ model.num_layers >= 1
        /\ model.embed_size % model.attention.heads # 0) => model.state = "failed"
    /\ model.state = "failed" => model.embed_size % model.attention.heads # 0
    /\ (fwd.active \/ pc # "idle") => model.state = "ok"

\* a construction that was refused
C6_Witness ==
    /\ model.state = "failed"
    /\ model.embed_size % model.attention.heads # 0

\* C7: a forward call with a source id outside [0, src_vocab_size), a target id
\* outside [0, trg_vocab_size) or a sequence longer than max_length fails with
\* a range error and returns no logits.
C7_OutOfRangeFails ==
    (/\ fwd.active
     /\ \/ ~IdsInRange(fwd.src, model.src_vocab_size)
        \/ ~IdsInRange(fwd.trg, model.trg_vocab_size)
        \/ fwd.src.shape[2] > model.max_length
        \/ fwd.trg.shape[2] > model.max_length)
    => (fwd.res.status = "range_error" /\ fwd.res.logits = <<>>)

\* a call that failed on a target id alone, with source and target of
\* different lengths
C7_Witness ==
    /\ fwd.active /\ fwd.res.status = "range_error"
    /\ IdsInRange(fwd.src, model.src_vocab_size)
    /\ ~IdsInRange(fwd.trg, model.trg_vocab_size)
    /\ fwd.src.shape[2] <= model.max_length
    /\ fwd.trg.shape[2] <= model.max_length
    /\ fwd.src.shape[2] # fwd.trg.shape[2]

\* C8: the first residual connection of a Block adds the attention output to
\* query, so that whenever the attention succeeds the Block succeeds and its
\* output has exactly the shape of query.
C8_BlockOutputHasQueryShape ==
    (/\ bcall.active
     /\ SelfAttentionShape(blk.attention, bcall.value, bcall.key, bcall.query,
                           bcall.mask).status = "ok")
    => /\ bcall.res.status = "ok"
       /\ bcall.res.shape = bcall.query.shape
       /\ bcall.res.residual = bcall.query.origin

\* a Block call that succeeded with value and key longer than query
C8_Witness ==
    /\ bcall.active /\ bcall.res.status = "ok"
    /\ bcall.value.shape[2] = bcall.key.shape[2]
    /\ bcall.value.shape[2] > bcall.query.shape[2]
    /\ bcall.query.shape[2] >= 1

\* C9: parameters change only in optimizer.step, which runs after the forward
\* pass, the loss and the backward pass of its training step and is not
\* followed directly by a forward pass; a forward pass leaves them unchanged.
C9_ParamsChangeOnlyInOptimizerStep ==
    [][/\ params' # params =>
            /\ pc = "step"
            /\ {"forward", "loss", "backward"} \subseteq done
            /\ pc' # "forward"
            /\ fwd' = fwd
       /\ (fwd'.active /\ fwd' # fwd) => params' = params]_vars

\* a training step whose optimizer step has run
C9_Witness ==
    /\ pc = "return"
    /\ params >= 1
    /\ {"forward", "loss", "backward", "step"} \subseteq done

\* what Decoder.forward could be given as its third argument
ThirdArgChoices ==
    {fwd.res.enc_out, NoT, fwd.src_mask,
     [shape |-> <<fwd.src.shape[1], 1, 1, fwd.src.shape[2]>>, origin |-> <<"src_mask", 2>>]}

\* C10: src_mask reaches only the encoder, whose blocks get it with value = key
\* = query = the current state; the decoder's third parameter is bound to the
\* encoder output and not read, its blocks are masked by trg_mask alone, and
\* its result is the same whatever its third argument is.
C10_SrcMaskOnlyInEncoder ==
    fwd.active =>
        /\ \A i \in 1..Len(fwd.res.enc_calls) :
              /\ fwd.res.enc_calls[i].value = <<"enc", i - 1>>
              /\ fwd.res.enc_calls[i].key = <<"enc", i - 1>>
              /\ fwd.res.enc_calls[i].query = <<"enc", i - 1>>
              /\ fwd.res.enc_calls[i].mask = fwd.src_mask.origin
        /\ \A i \in 1..Len(fwd.res.dec_calls) :
              fwd.res.dec_calls[i].mask = fwd.trg_mask.origin
        /\ fwd.res.dec_src_mask = fwd.res.enc_out
        /\ fwd.res.enc_out # NoT =>
              \A m \in ThirdArgChoices :
                 DecoderForward(model, fwd.trg, fwd.res.enc_out, m, fwd.trg_mask)
                    = [status |-> fwd.res.status, logits |-> fwd.res.logits,
                       calls |-> fwd.res.dec_calls]

\* a call with a source mask and no target mask whose decoder layers ran
C10_Witness ==
    /\ fwd.active /\ fwd.res.status = "ok"
    /\ fwd.src_mask # NoT /\ fwd.trg_mask = NoT
    /\ Len(fwd.res.enc_calls) >= 1
    /\ Len(fwd.res.dec_calls) >= 1

====
